---- MODULE Spec2Model ----
(***************************************************************************)
(* A model of 3asq-dl.py: the ThreeAsqProvider scraper (search,            *)
(* get_chapters with its SSR -> admin-AJAX -> direct-AJAX fallback,        *)
(* _parse_chapters, download_chapter) and the interactive driver.          *)
(*                                                                         *)
(* Text is modelled as sequences of one-character strings, so that the     *)
(* regular expressions and the substring test of the source are computed   *)
(* character by character.  A parsed document is modelled by the sequence  *)
(* of elements its CSS selector yields, in document order.                 *)
(***************************************************************************)
EXTENDS Integers, Sequences, FiniteSets, TLC

VARIABLES
    \* ---- search (lines 20-67)
    s_pc,          \* "idle" | "loop" | "except" | "done" | "raised"
    s_containers,  \* soup.select(...) of the search response
    s_i,           \* position of the for loop in containers
    results,       \* the results list being built
    seen_slugs,    \* the seen_slugs set
    s_ret,         \* the value search returned
    s_exc,         \* "none" | "network" | "TypeError": what the try block raised
    \* ---- _parse_chapters called on its own (lines 121-149)
    p_pc,          \* "call" | "done"
    p_elems,       \* soup.select(...) of the fragment
    p_slug,        \* manga_slug
    p_ret,         \* the list returned
    \* ---- get_chapters (lines 69-119)
    gc_pc,         \* "start" | "static" | "admin" | "direct" | "return" | "done" | "raised"
    gc_html,       \* body of the manga page
    gc_admin,      \* body of the admin-AJAX response
    gc_direct,     \* body of the direct-AJAX response
    gc_used,       \* "none" | "static" | "admin" | "direct": the HTML the chapters came from
    gc_calls,      \* the requests issued, in order
    chapters,      \* the local variable chapters
    gc_ret,        \* the value get_chapters returned
    \* ---- download_chapter (lines 173-204)
    d_pc,          \* "idle" | "loop" | "stream" | "done" | "raised"
    pages,         \* the pages argument (image URLs)
    d_i,           \* 1-based position of the for loop in pages
    d_sent,        \* chunks of the current response already written
    files,         \* the chapter directory: file name -> chunks on disk
    d_before,      \* the directory as it was when the current run started
    d_log,         \* what the current run did with each page, in order
    d_run,         \* number of download_chapter runs started
    \* ---- the interactive driver (lines 207-264)
    m_pc,          \* position of the script
    m_results,     \* results of app.search
    m_manga,       \* what the user typed at "Select manga (number): "
    selected,      \* index into results of selected_manga (0-based, may be negative)
    m_chapters,    \* chapters of the selected manga
    m_opt,         \* what the user typed at "Choice: "
    m_chap,        \* what the user typed at "Enter chapter number from list: "
    target,        \* target_chapters, as 0-based positions in chapters
    m_k,           \* position of the download loop in target_chapters
    downloaded     \* chapters handed to download_chapter

searchVars == <<s_pc, s_containers, s_i, results, seen_slugs, s_ret, s_exc>>
parseVars  == <<p_pc, p_elems, p_slug, p_ret>>
chapVars   == <<gc_pc, gc_html, gc_admin, gc_direct, gc_used, gc_calls, chapters, gc_ret>>
dlVars     == <<d_pc, pages, d_i, d_sent, files, d_before, d_log, d_run>>
mainVars   == <<m_pc, m_results, m_manga, selected, m_chapters, m_opt, m_chap,
                target, m_k, downloaded>>
vars == <<searchVars, parseVars, chapVars, dlVars, mainVars>>

\* what an operation leaves alone: the state of the other operations
searchOthers == <<parseVars, chapVars, dlVars, mainVars>>
parseOthers  == <<searchVars, chapVars, dlVars, mainVars>>
chapOthers   == <<searchVars, parseVars, dlVars, mainVars>>
dlOthers     == <<searchVars, parseVars, chapVars, mainVars>>
mainOthers   == <<searchVars, parseVars, chapVars, dlVars>>

(***************************************************************************)
(* Bounds of the model.                                                    *)
(***************************************************************************)
MaxContainers == 3   \* result containers in a search response
MaxParseElems == 2   \* chapter elements in a fragment given to _parse_chapters
MaxChapElems  == 3   \* chapter elements in a page seen by get_chapters
MaxPages      == 2   \* pages of a chapter
MaxRuns       == 2   \* runs of download_chapter over the same pages
MaxList       == 2   \* length of the lists the driver selects from

(***************************************************************************)
(* Text.                                                                   *)
(***************************************************************************)
Str_manga == <<"/", "m", "a", "n", "g", "a", "/">>
Host      == <<"h", ":", "/", "/", "o">>

\* s[p..] starts with pat
StartsAt(pat, s, p) ==
    /\ p + Len(pat) - 1 <= Len(s)
    /\ \A k \in 1..Len(pat) : s[p + k - 1] = pat[k]

\* Python's `sub in s`
Contains(sub, s) == \E p \in 1..(Len(s) + 1) : StartsAt(sub, s, p)

\* index of the last character of the longest run of non-'/' characters that
\* starts at p (p - 1 when the run is empty): what a greedy [^/]+ consumes
RECURSIVE RunEnd(_, _)
RunEnd(s, p) == IF p > Len(s) \/ s[p] = "/" THEN p - 1 ELSE RunEnd(s, p + 1)

NoMatch == [found |-> FALSE, group |-> <<>>]

\* re.match of /manga/([^/]+)/ at position p
SlugMatchAt(s, p) ==
    IF ~StartsAt(Str_manga, s, p) THEN NoMatch
    ELSE LET q == p + Len(Str_manga)
             e == RunEnd(s, q)
         IN  IF e >= q /\ e + 1 <= Len(s) /\ s[e + 1] = "/"
             THEN [found |-> TRUE, group |-> SubSeq(s, q, e)]
             ELSE NoMatch

\* re.match of /manga/[^/]+/([^/]+)/ at position p
ChapterMatchAt(s, p) ==
    IF ~StartsAt(Str_manga, s, p) THEN NoMatch
    ELSE LET q1 == p + Len(Str_manga)
             e1 == RunEnd(s, q1)
         IN  IF ~(e1 >= q1 /\ e1 + 1 <= Len(s) /\ s[e1 + 1] = "/") THEN NoMatch
             ELSE LET q2 == e1 + 2
                      e2 == RunEnd(s, q2)
                  IN  IF e2 >= q2 /\ e2 + 1 <= Len(s) /\ s[e2 + 1] = "/"
                      THEN [found |-> TRUE, group |-> SubSeq(s, q2, e2)]
                      ELSE NoMatch

\* re.search: the match at the leftmost position that has one
RECURSIVE SlugSearchFrom(_, _)
SlugSearchFrom(s, p) ==
    IF p > Len(s) THEN NoMatch
    ELSE IF SlugMatchAt(s, p).found THEN SlugMatchAt(s, p)
    ELSE SlugSearchFrom(s, p + 1)

RECURSIVE ChapterSearchFrom(_, _)
ChapterSearchFrom(s, p) ==
    IF p > Len(s) THEN NoMatch
    ELSE IF ChapterMatchAt(s, p).found THEN ChapterMatchAt(s, p)
    ELSE ChapterSearchFrom(s, p + 1)

\* re.search(r'/manga/([^/]+)/', href)
SlugSearch(href) == SlugSearchFrom(href, 1)

\* re.search(r'/manga/[^/]+/([^/]+)/', href)
ChapterSearch(href) == ChapterSearchFrom(href, 1)

(***************************************************************************)
(* Elements.  An element the selector yields is a record: whether it holds *)
(* an anchor, whether the anchor has an href attribute, the href and the   *)
(* anchor's text.                                                          *)
(***************************************************************************)
NoAnchor == [anchor |-> FALSE, hasHref |-> FALSE, href |-> <<>>, title |-> ""]
Anchor(t, h) == [anchor |-> TRUE, hasHref |-> TRUE, href |-> h, title |-> t]
BareAnchor(t) == [anchor |-> TRUE, hasHref |-> FALSE, href |-> <<>>, title |-> t]

Slug_ab == <<"a", "b">>
Slug_cd == <<"c", "d">>
MangaUrl(m) == Str_manga \o m \o <<"/">>
Path(m, c) == MangaUrl(m) \o c \o <<"/">>

RECURSIVE SeqsUpTo(_, _)
SeqsUpTo(S, n) ==
    IF n = 0 THEN {<<>>}
    ELSE LET shorter == SeqsUpTo(S, n - 1)
         IN  shorter \cup {Append(q, x) : q \in {r \in shorter : Len(r) = n - 1}, x \in S}

(***************************************************************************)
(* _parse_chapters                                                         *)
(***************************************************************************)
\* lines 127-138: the element passes every `continue`
Keeps(el, manga_slug) ==
    /\ el.anchor
    /\ el.hasHref /\ el.href # <<>> /\ Contains(manga_slug, el.href)
    /\ ChapterSearch(el.href).found

\* lines 140-147
ChapterOf(el) ==
    [title |-> el.title, slug |-> ChapterSearch(el.href).group, url |-> el.href]

RECURSIVE _parse_chapters(_, _)
_parse_chapters(elements, manga_slug) ==
    IF elements = <<>> THEN <<>>
    ELSE LET el   == Head(elements)
             rest == _parse_chapters(Tail(elements), manga_slug)
         IN  IF Keeps(el, manga_slug) THEN <<ChapterOf(el)>> \o rest ELSE rest

(***************************************************************************)
(* search                                                                  *)
(***************************************************************************)
SearchElems ==
    { NoAnchor,
      BareAnchor("N"),
      Anchor("A", MangaUrl(Slug_ab)),
      Anchor("A2", Host \o MangaUrl(Slug_ab)),
      Anchor("C", MangaUrl(Slug_cd)),
      Anchor("X", <<"/", "x", "/">>) }

SearchResponses == SeqsUpTo(SearchElems, MaxContainers)

SearchIdle ==
    /\ s_pc = "idle" /\ s_containers = <<>> /\ s_i = 0 /\ results = <<>>
    /\ seen_slugs = {} /\ s_ret = <<>> /\ s_exc = "none"

\* line 65: `except Exception` catches whatever the try block raises
Caught(exc) == exc \in {"network", "TypeError"}

\* line 29 raises: requests.get failed (the except clause is SearchExcept)
SearchRequestFails ==
    /\ s_pc = "idle"
    /\ s_pc' = (IF Caught("network") THEN "except" ELSE "raised") /\ s_exc' = "network"
    /\ UNCHANGED <<s_containers, s_i, results, seen_slugs, s_ret>>
    /\ UNCHANGED searchOthers

\* lines 29-36: the response arrives and the containers are selected
SearchRequest ==
    /\ s_pc = "idle"
    /\ \E resp \in SearchResponses : s_containers' = resp
    /\ s_pc' = "loop" /\ s_i' = 1
    /\ results' = <<>> /\ seen_slugs' = {}
    /\ UNCHANGED <<s_ret, s_exc>>
    /\ UNCHANGED searchOthers

\* line 53, mutated: the seen-set test dropped
SeenMutNever(slug, seen) == FALSE

\* line 53
Seen(slug, seen) == slug \in seen

\* lines 38-61: one iteration of the loop
SearchStep ==
    /\ s_pc = "loop" /\ s_i <= Len(s_containers)
    /\ LET el == s_containers[s_i]
       IN  IF ~el.anchor
           THEN \* line 41-42
                /\ s_i' = s_i + 1
                /\ UNCHANGED <<s_pc, results, seen_slugs, s_exc>>
           ELSE IF ~el.hasHref
           THEN \* line 48: re.search(pattern, None) raises TypeError
                /\ s_pc' = (IF Caught("TypeError") THEN "except" ELSE "raised")
                /\ s_exc' = "TypeError"
                /\ UNCHANGED <<s_i, results, seen_slugs>>
           ELSE IF ~SlugSearch(el.href).found
           THEN \* line 49-50
                /\ s_i' = s_i + 1
                /\ UNCHANGED <<s_pc, results, seen_slugs, s_exc>>
           ELSE IF Seen(SlugSearch(el.href).group, seen_slugs)
           THEN \* line 53-54
                /\ s_i' = s_i + 1
                /\ UNCHANGED <<s_pc, results, seen_slugs, s_exc>>
           ELSE \* lines 55-61
                /\ seen_slugs' = seen_slugs \cup {SlugSearch(el.href).group}
                /\ results' = Append(results,
                                     [title |-> el.title,
                                      slug  |-> SlugSearch(el.href).group,
                                      url   |-> el.href])
                /\ s_i' = s_i + 1
                /\ UNCHANGED <<s_pc, s_exc>>
    /\ UNCHANGED <<s_containers, s_ret>>
    /\ UNCHANGED searchOthers

\* line 63
SearchReturn ==
    /\ s_pc = "loop" /\ s_i > Len(s_containers)
    /\ s_ret' = results /\ s_pc' = "done"
    /\ UNCHANGED <<s_containers, s_i, results, seen_slugs, s_exc>>
    /\ UNCHANGED searchOthers

\* lines 65-67, mutated: the results collected so far are returned
SearchExceptValueMutKeeps(collected) == collected

\* lines 65-67: what the except clause returns
SearchExceptValue(collected) == <<>>

\* lines 65-67
SearchExcept ==
    /\ s_pc = "except"
    /\ s_ret' = SearchExceptValue(results) /\ s_pc' = "done"
    /\ UNCHANGED <<s_containers, s_i, results, seen_slugs, s_exc>>
    /\ UNCHANGED searchOthers

search == SearchRequestFails \/ SearchRequest \/ SearchStep \/ SearchReturn \/ SearchExcept


(***************************************************************************)
(* _parse_chapters on its own: the fragment and the slug are the inputs.   *)
(***************************************************************************)
Ch_1 == <<"c", "1">>
Ch_2 == <<"c", "2">>
Ch_3 == <<"c", "3">>
Slug_xab == <<"x", "a", "b">>

ParseElems ==
    { NoAnchor,
      BareAnchor("N"),
      Anchor("E", <<>>),
      Anchor("1", Path(Slug_ab, Ch_1)),
      Anchor("2", Host \o Path(Slug_ab, Ch_2)),
      Anchor("X", Path(Slug_xab, Ch_1)),
      Anchor("C", Path(Slug_cd, Ch_1)),
      Anchor("B", Path(Slug_cd, Slug_ab)),
      Anchor("M", MangaUrl(Slug_ab)) }

ParseSlugs == {Slug_ab, Slug_cd}

ParseIdle == p_pc = "idle" /\ p_elems = <<>> /\ p_slug = <<>> /\ p_ret = <<>>

ParseInit ==
    /\ p_pc = "call"
    /\ p_elems \in SeqsUpTo(ParseElems, MaxParseElems)
    /\ p_slug \in ParseSlugs
    /\ p_ret = <<>>

ParseCall ==
    /\ p_pc = "call"
    /\ p_ret' = _parse_chapters(p_elems, p_slug)
    /\ p_pc' = "done"
    /\ UNCHANGED <<p_elems, p_slug>>
    /\ UNCHANGED parseOthers

(***************************************************************************)
(* get_chapters                                                            *)
(***************************************************************************)
\* A response body: the length of its text, whether the text is "0", the
\* chapter elements its parse selects, and the numbers that follow postid-
\* and data-id=" in it (-1: the pattern does not occur).
Body(n, z, els, pid, did) ==
    [len |-> n, zero |-> z, elems |-> els, postid |-> pid, dataid |-> did]

NoBody == Body(-1, FALSE, <<>>, -1, -1)

\* texts too short to hold an element: "", "0", a 5-character text
ShortBodies == {Body(0, FALSE, <<>>, -1, -1), Body(1, TRUE, <<>>, -1, -1),
                Body(5, FALSE, <<>>, -1, -1)}

ChapElems ==
    { Anchor("Ch.3", Path(Slug_ab, Ch_3)),
      Anchor("Ch.2", Path(Slug_ab, Ch_2)),
      Anchor("Ch.1", Path(Slug_ab, Ch_1)),
      Anchor("Other", Path(Slug_cd, Ch_1)) }

ChapDocs == SeqsUpTo(ChapElems, MaxChapElems)

\* a 6-character text, and documents
LongBodies ==
    {Body(6, FALSE, <<>>, -1, -1)} \cup {Body(100, FALSE, els, -1, -1) : els \in ChapDocs}

PageBodies ==
    ShortBodies \cup {Body(100, FALSE, els, pid, did) :
                         els \in ChapDocs, pid \in {-1, 7}, did \in {-1, 9}}

AjaxBodies == ShortBodies \cup LongBodies

\* the manga_slug argument
manga_slug == Slug_ab

ChapIdle ==
    /\ gc_pc = "idle" /\ gc_html = NoBody /\ gc_admin = NoBody /\ gc_direct = NoBody
    /\ gc_used = "none" /\ gc_calls = <<>> /\ chapters = <<>> /\ gc_ret = <<>>

ChapInit ==
    /\ gc_pc = "start" /\ gc_html = NoBody /\ gc_admin = NoBody /\ gc_direct = NoBody
    /\ gc_used = "none" /\ gc_calls = <<>> /\ chapters = <<>> /\ gc_ret = <<>>

\* line 89: the post id, -1 when neither pattern matches
PostId(html) == IF html.postid # -1 THEN html.postid ELSE html.dataid

\* line 85, mutated: the AJAX fallback is tried whatever the static parse gave
NeedsAjaxMutAlways(chaps) == TRUE

\* line 85: `if not chapters`
NeedsAjax(chaps) == chaps = <<>>

\* line 103, mutated: an off-by-one in the length test
UsesAdminMutLen(resp) == resp.len > 4 /\ ~resp.zero

\* line 103: len(ajax_resp.text) > 5 and ajax_resp.text != "0"
UsesAdmin(resp) == resp.len > 5 /\ ~resp.zero

\* a list back to front: the reversal the comment at lines 117-118 considers
RECURSIVE Reverse(_)
Reverse(q) == IF q = <<>> THEN <<>> ELSE Append(Reverse(Tail(q)), Head(q))

\* line 119, mutated: the list is reversed before it is returned
ReturnValueMutReversed(chaps) == Reverse(chaps)

\* line 119: `return chapters`
ReturnValue(chaps) == chaps

\* line 77 raises: nothing in get_chapters catches it
GetPageFails ==
    /\ gc_pc = "start"
    /\ gc_calls' = Append(gc_calls, [req |-> "page", post_id |-> -1])
    /\ gc_pc' = "raised"
    /\ UNCHANGED <<gc_html, gc_admin, gc_direct, gc_used, chapters, gc_ret>>
    /\ UNCHANGED chapOthers

\* lines 77-79
GetPage ==
    /\ gc_pc = "start"
    /\ \E body \in PageBodies : gc_html' = body
    /\ gc_calls' = Append(gc_calls, [req |-> "page", post_id |-> -1])
    /\ gc_pc' = "static"
    /\ UNCHANGED <<gc_admin, gc_direct, gc_used, chapters, gc_ret>>
    /\ UNCHANGED chapOthers

\* lines 82-91
StaticParse ==
    /\ gc_pc = "static"
    /\ chapters' = _parse_chapters(gc_html.elems, manga_slug)
    /\ gc_used' = "static"
    /\ gc_pc' = IF NeedsAjax(chapters') /\ PostId(gc_html) # -1 THEN "admin" ELSE "return"
    /\ UNCHANGED <<gc_html, gc_admin, gc_direct, gc_calls, gc_ret>>
    /\ UNCHANGED chapOthers

\* lines 97-101 raise: caught at line 114
AdminAjaxFails ==
    /\ gc_pc = "admin"
    /\ gc_calls' = Append(gc_calls, [req |-> "admin", post_id |-> PostId(gc_html)])
    /\ gc_pc' = "return"
    /\ UNCHANGED <<gc_html, gc_admin, gc_direct, gc_used, chapters, gc_ret>>
    /\ UNCHANGED chapOthers

\* lines 97-108
AdminAjax ==
    /\ gc_pc = "admin"
    /\ gc_calls' = Append(gc_calls, [req |-> "admin", post_id |-> PostId(gc_html)])
    /\ \E resp \in AjaxBodies :
         /\ gc_admin' = resp
         /\ IF UsesAdmin(resp)
            THEN /\ chapters' = _parse_chapters(resp.elems, manga_slug)
                 /\ gc_used' = "admin"
                 /\ gc_pc' = "return"
            ELSE /\ gc_pc' = "direct"
                 /\ UNCHANGED <<chapters, gc_used>>
    /\ UNCHANGED <<gc_html, gc_direct, gc_ret>>
    /\ UNCHANGED chapOthers

\* line 110 raises: caught at line 114
DirectAjaxFails ==
    /\ gc_pc = "direct"
    /\ gc_calls' = Append(gc_calls, [req |-> "direct", post_id |-> -1])
    /\ gc_pc' = "return"
    /\ UNCHANGED <<gc_html, gc_admin, gc_direct, gc_used, chapters, gc_ret>>
    /\ UNCHANGED chapOthers

\* lines 109-112
DirectAjax ==
    /\ gc_pc = "direct"
    /\ gc_calls' = Append(gc_calls, [req |-> "direct", post_id |-> -1])
    /\ \E resp \in AjaxBodies :
         /\ gc_direct' = resp
         /\ chapters' = _parse_chapters(resp.elems, manga_slug)
    /\ gc_used' = "direct"
    /\ gc_pc' = "return"
    /\ UNCHANGED <<gc_html, gc_admin, gc_ret>>
    /\ UNCHANGED chapOthers

\* line 119
GetChaptersReturn ==
    /\ gc_pc = "return"
    /\ gc_ret' = ReturnValue(chapters)
    /\ gc_pc' = "done"
    /\ UNCHANGED <<gc_html, gc_admin, gc_direct, gc_used, gc_calls, chapters>>
    /\ UNCHANGED chapOthers

get_chapters ==
    \/ GetPageFails \/ GetPage \/ StaticParse \/ AdminAjaxFails \/ AdminAjax
    \/ DirectAjaxFails \/ DirectAjax \/ GetChaptersReturn


(***************************************************************************)
(* download_chapter                                                        *)
(***************************************************************************)
Url_a == <<"a", ".", "j", "p", "g">>
Url_b == <<"h", ".", "o", "/", "b", ".", "p", "n", "g">>
Url_n == <<"n">>
Url_s == <<"h", ".", "o", "/", "s">>

Urls == {Url_a, Url_b, Url_n, Url_s}

\* the body the server holds for a URL, as the chunks iter_content yields
BodyOf(url) ==
    IF url = Url_a THEN <<"a1", "a2">>
    ELSE IF url = Url_b THEN <<"b1">>
    ELSE IF url = Url_n THEN <<>>
    ELSE <<"s1">>

\* line 187: url.split('.')[-1], the text after the last '.' (all of it when
\* there is none)
Ext(url) ==
    LET dots == {k \in 1..Len(url) : url[k] = "."}
    IN  IF dots = {} THEN url
        ELSE SubSeq(url, (CHOOSE k \in dots : \A j \in dots : j <= k) + 1, Len(url))

Digit(n) == CASE n = 0 -> "0" [] n = 1 -> "1" [] n = 2 -> "2" [] n = 3 -> "3"
              [] n = 4 -> "4" [] n = 5 -> "5" [] n = 6 -> "6" [] n = 7 -> "7"
              [] n = 8 -> "8" [] n = 9 -> "9"

RECURSIVE Decimal(_)
Decimal(n) == IF n < 10 THEN <<Digit(n)>> ELSE Append(Decimal(n \div 10), Digit(n % 10))

RECURSIVE PadLeft(_, _)
PadLeft(q, width) == IF Len(q) >= width THEN q ELSE PadLeft(<<"0">> \o q, width)

\* line 188: f"{i+1:03d}.{ext}", for the page at 1-based position k
Filename(k, url) == PadLeft(Decimal(k), 3) \o <<".">> \o Ext(url)

\* line 198: open(filepath, 'wb') fails when the name leads into a directory
\* that does not exist
OpenFails(name) == \E k \in 1..Len(name) : name[k] = "/"

\* line 191, mutated: the existence test dropped
FileExistsMutNever(name, dir) == FALSE

\* line 191: os.path.exists(filepath)
FileExists(name, dir) == name \in DOMAIN dir

\* lines 201-202, mutated: the exception leaves download_chapter
AfterExceptionMutPropagates == "raised"

\* lines 201-202: the except clause prints and the loop goes on
AfterException == "loop"

EmptyDir == [name \in {} |-> <<>>]

Put(dir, name, content) ==
    [n \in DOMAIN dir \cup {name} |-> IF n = name THEN content ELSE dir[n]]

Logged(k, what) == Append(d_log, [i |-> k, outcome |-> what])

DlIdle ==
    /\ d_pc = "idle" /\ pages = <<>> /\ d_i = 0 /\ d_sent = 0 /\ files = EmptyDir
    /\ d_before = EmptyDir /\ d_log = <<>> /\ d_run = 0

DlInit ==
    /\ d_pc = "idle" /\ pages \in SeqsUpTo(Urls, MaxPages)
    /\ d_i = 0 /\ d_sent = 0 /\ files = EmptyDir
    /\ d_before = EmptyDir /\ d_log = <<>> /\ d_run = 0

\* lines 178-184: a run starts
DownloadStart ==
    /\ d_pc \in {"idle", "done"} /\ d_run < MaxRuns
    /\ d_run' = d_run + 1
    /\ d_before' = files
    /\ d_log' = <<>> /\ d_i' = 1 /\ d_sent' = 0
    /\ d_pc' = "loop"
    /\ UNCHANGED <<pages, files>>
    /\ UNCHANGED dlOthers

\* lines 191-192
PageSkip ==
    /\ d_pc = "loop" /\ d_i <= Len(pages)
    /\ FileExists(Filename(d_i, pages[d_i]), files)
    /\ d_log' = Logged(d_i, "skip")
    /\ d_i' = d_i + 1
    /\ UNCHANGED <<d_pc, pages, d_sent, files, d_before, d_run>>
    /\ UNCHANGED dlOthers

\* line 196 raises
PageGetFails ==
    /\ d_pc = "loop" /\ d_i <= Len(pages)
    /\ ~FileExists(Filename(d_i, pages[d_i]), files)
    /\ d_log' = Logged(d_i, "raise")
    /\ d_pc' = AfterException
    /\ d_i' = d_i + 1
    /\ UNCHANGED <<pages, d_sent, files, d_before, d_run>>
    /\ UNCHANGED dlOthers

\* lines 196-197: a status other than 200
PageNot200 ==
    /\ d_pc = "loop" /\ d_i <= Len(pages)
    /\ ~FileExists(Filename(d_i, pages[d_i]), files)
    /\ d_log' = Logged(d_i, "status")
    /\ d_i' = d_i + 1
    /\ UNCHANGED <<d_pc, pages, d_sent, files, d_before, d_run>>
    /\ UNCHANGED dlOthers

\* lines 196-198: status 200, and the file is opened for writing
PageOpen ==
    /\ d_pc = "loop" /\ d_i <= Len(pages)
    /\ ~FileExists(Filename(d_i, pages[d_i]), files)
    /\ IF OpenFails(Filename(d_i, pages[d_i]))
       THEN /\ d_log' = Logged(d_i, "openfail")
            /\ d_pc' = AfterException
            /\ d_i' = d_i + 1
            /\ UNCHANGED <<files, d_sent>>
       ELSE /\ files' = Put(files, Filename(d_i, pages[d_i]), <<>>)
            /\ d_sent' = 0
            /\ d_pc' = "stream"
            /\ UNCHANGED <<d_log, d_i>>
    /\ UNCHANGED <<pages, d_before, d_run>>
    /\ UNCHANGED dlOthers

\* lines 199-200: one chunk is read and written
StreamChunk ==
    /\ d_pc = "stream" /\ d_sent < Len(BodyOf(pages[d_i]))
    /\ LET name == Filename(d_i, pages[d_i])
       IN  files' = Put(files, name, Append(files[name], BodyOf(pages[d_i])[d_sent + 1]))
    /\ d_sent' = d_sent + 1
    /\ UNCHANGED <<d_pc, pages, d_i, d_before, d_log, d_run>>
    /\ UNCHANGED dlOthers

\* line 199 raises: the transfer breaks before the body is complete
StreamFails ==
    /\ d_pc = "stream" /\ d_sent < Len(BodyOf(pages[d_i]))
    /\ d_log' = Logged(d_i, "interrupted")
    /\ d_pc' = AfterException
    /\ d_i' = d_i + 1
    /\ UNCHANGED <<pages, d_sent, files, d_before, d_run>>
    /\ UNCHANGED dlOthers

\* lines 199-200: the body is exhausted and the file is closed
StreamDone ==
    /\ d_pc = "stream" /\ d_sent = Len(BodyOf(pages[d_i]))
    /\ d_log' = Logged(d_i, "ok")
    /\ d_pc' = "loop"
    /\ d_i' = d_i + 1
    /\ UNCHANGED <<pages, d_sent, files, d_before, d_run>>
    /\ UNCHANGED dlOthers

\* line 204
DownloadReturn ==
    /\ d_pc = "loop" /\ d_i > Len(pages)
    /\ d_pc' = "done"
    /\ UNCHANGED <<pages, d_i, d_sent, files, d_before, d_log, d_run>>
    /\ UNCHANGED dlOthers

download_chapter ==
    \/ DownloadStart \/ PageSkip \/ PageGetFails \/ PageNot200 \/ PageOpen
    \/ StreamChunk \/ StreamFails \/ StreamDone \/ DownloadReturn


(***************************************************************************)
(* The interactive driver.  The lists search and get_chapters return are   *)
(* modelled by their lengths: a list of n items is <<1, ..., n>>.  What    *)
(* the user types is a record: whether int() accepts it, and its value.    *)
(***************************************************************************)
Typed(isNum, v) == [numeric |-> isNum, val |-> v]
NotTyped == Typed(FALSE, -99)

Inputs == {Typed(TRUE, v) : v \in (0 - MaxList - 1)..(MaxList + 1)} \cup {Typed(FALSE, 0)}

ListOf(n) == [k \in 1..n |-> k]

\* lst[idx] in Python, for a list of length n: is the index accepted
IndexOk(idx, n) == idx < n /\ idx >= 0 - n

\* lst[idx] in Python: the 0-based position a (possibly negative) index denotes
PyIndex(idx, n) == IF idx < 0 THEN idx + n ELSE idx

MainIdle ==
    /\ m_pc = "idle" /\ m_results = <<>> /\ m_manga = NotTyped /\ selected = -99
    /\ m_chapters = <<>> /\ m_opt = "" /\ m_chap = NotTyped /\ target = <<>>
    /\ m_k = 0 /\ downloaded = {}

MainInit ==
    /\ m_pc = "search" /\ m_results = <<>> /\ m_manga = NotTyped /\ selected = -99
    /\ m_chapters = <<>> /\ m_opt = "" /\ m_chap = NotTyped /\ target = <<>>
    /\ m_k = 0 /\ downloaded = {}

\* lines 211-220
MainSearch ==
    /\ m_pc = "search"
    /\ \E n \in 0..MaxList : m_results' = ListOf(n)
    /\ m_pc' = IF m_results' = <<>> THEN "exit" ELSE "select_manga"
    /\ UNCHANGED <<m_manga, selected, m_chapters, m_opt, m_chap, target, m_k, downloaded>>
    /\ UNCHANGED mainOthers

\* lines 223-224: int() raises ValueError, results[choice] raises IndexError
MainSelectManga ==
    /\ m_pc = "select_manga"
    /\ \E inp \in Inputs :
         /\ m_manga' = inp
         /\ IF ~inp.numeric \/ ~IndexOk(inp.val - 1, Len(m_results))
            THEN m_pc' = "crashed" /\ UNCHANGED selected
            ELSE m_pc' = "chapters" /\ selected' = PyIndex(inp.val - 1, Len(m_results))
    /\ UNCHANGED <<m_results, m_chapters, m_opt, m_chap, target, m_k, downloaded>>
    /\ UNCHANGED mainOthers

\* line 227 raises: get_chapters lets the failure of its first request out
MainChaptersFail ==
    /\ m_pc = "chapters"
    /\ m_pc' = "crashed"
    /\ UNCHANGED <<m_results, m_manga, selected, m_chapters, m_opt, m_chap, target, m_k,
                   downloaded>>
    /\ UNCHANGED mainOthers

\* lines 227-237
MainChapters ==
    /\ m_pc = "chapters"
    /\ \E n \in 0..MaxList : m_chapters' = ListOf(n)
    /\ m_pc' = IF m_chapters' = <<>> THEN "exit" ELSE "option"
    /\ UNCHANGED <<m_results, m_manga, selected, m_opt, m_chap, target, m_k, downloaded>>
    /\ UNCHANGED mainOthers

\* lines 240-256
MainOption ==
    /\ m_pc = "option"
    /\ \E opt \in {"1", "2", "q"} :
         /\ m_opt' = opt
         /\ IF opt = "1" THEN m_pc' = "select_chapter" /\ UNCHANGED <<target, m_k>>
            ELSE IF opt = "2"
            THEN /\ target' = [k \in 1..Len(m_chapters) |-> k - 1]
                 /\ m_k' = 1
                 /\ m_pc' = "download"
            ELSE m_pc' = "exit" /\ UNCHANGED <<target, m_k>>
    /\ UNCHANGED <<m_results, m_manga, selected, m_chapters, m_chap, downloaded>>
    /\ UNCHANGED mainOthers

\* lines 251-252
MainSelectChapter ==
    /\ m_pc = "select_chapter"
    /\ \E inp \in Inputs :
         /\ m_chap' = inp
         /\ IF ~inp.numeric \/ ~IndexOk(inp.val - 1, Len(m_chapters))
            THEN m_pc' = "crashed" /\ UNCHANGED <<target, m_k>>
            ELSE /\ target' = <<PyIndex(inp.val - 1, Len(m_chapters))>>
                 /\ m_k' = 1
                 /\ m_pc' = "download"
    /\ UNCHANGED <<m_results, m_manga, selected, m_chapters, m_opt, downloaded>>
    /\ UNCHANGED mainOthers

\* line 260 raises: nothing catches a failure of get_pages
MainPagesFail ==
    /\ m_pc = "download" /\ m_k <= Len(target)
    /\ m_pc' = "crashed"
    /\ UNCHANGED <<m_results, m_manga, selected, m_chapters, m_opt, m_chap, target, m_k,
                   downloaded>>
    /\ UNCHANGED mainOthers

\* lines 259-264: one chapter of target_chapters
MainDownload ==
    /\ m_pc = "download" /\ m_k <= Len(target)
    /\ \E hasPages \in BOOLEAN :
         downloaded' = IF hasPages THEN downloaded \cup {<<selected, target[m_k]>>}
                       ELSE downloaded
    /\ m_k' = m_k + 1
    /\ UNCHANGED <<m_pc, m_results, m_manga, selected, m_chapters, m_opt, m_chap, target>>
    /\ UNCHANGED mainOthers

\* the loop of line 259 ends, and the script with it
MainEnd ==
    /\ m_pc = "download" /\ m_k > Len(target)
    /\ m_pc' = "exit"
    /\ UNCHANGED <<m_results, m_manga, selected, m_chapters, m_opt, m_chap, target, m_k,
                   downloaded>>
    /\ UNCHANGED mainOthers

main ==
    \/ MainSearch \/ MainSelectManga \/ MainChaptersFail \/ MainChapters \/ MainOption
    \/ MainSelectChapter \/ MainPagesFail \/ MainDownload \/ MainEnd

(***************************************************************************)
(* Specifications: one per operation, each started with the other          *)
(* operations idle.                                                        *)
(***************************************************************************)
InitSearch == SearchIdle /\ ParseIdle /\ ChapIdle /\ DlIdle /\ MainIdle
SpecSearch == InitSearch /\ [][search]_vars

InitParse == SearchIdle /\ ParseInit /\ ChapIdle /\ DlIdle /\ MainIdle
SpecParse == InitParse /\ [][ParseCall]_vars

InitChapters == SearchIdle /\ ParseIdle /\ ChapInit /\ DlIdle /\ MainIdle
SpecChapters == InitChapters /\ [][get_chapters]_vars

InitDownload == SearchIdle /\ ParseIdle /\ ChapIdle /\ DlInit /\ MainIdle
SpecDownload == InitDownload /\ [][download_chapter]_vars

InitMain == SearchIdle /\ ParseIdle /\ ChapIdle /\ DlIdle /\ MainInit
SpecMain == InitMain /\ [][main]_vars

(***************************************************************************)
(* Properties of search.                                                   *)
(***************************************************************************)
\* container k has a title anchor whose href yields a slug
ValidAt(k) ==
    /\ s_containers[k].anchor /\ s_containers[k].hasHref
    /\ SlugSearch(s_containers[k].href).found

SlugAt(k) == SlugSearch(s_containers[k].href).group

\* the containers that are the first with their slug
FirstPositions ==
    {k \in 1..Len(s_containers) :
        ValidAt(k) /\ \A j \in 1..(k - 1) : ValidAt(j) => SlugAt(j) # SlugAt(k)}

\* the a-th smallest first position
NthFirst(a) ==
    CHOOSE k \in FirstPositions : Cardinality({j \in FirstPositions : j < k}) = a - 1

\* ret is one result per distinct slug, the first occurrence, in source order
IsDistinctFirst(ret) ==
    /\ Len(ret) = Cardinality(FirstPositions)
    /\ Len(ret) <= Len(s_containers)
    /\ \A a, b \in 1..Len(ret) : a # b => ret[a].slug # ret[b].slug
    /\ \A a \in 1..Len(ret) :
         ret[a] = [title |-> s_containers[NthFirst(a)].title,
                   slug  |-> SlugAt(NthFirst(a)),
                   url   |-> s_containers[NthFirst(a)].href]

\* some container has a title anchor without an href
SomeBareAnchor ==
    \E k \in 1..Len(s_containers) : s_containers[k].anchor /\ ~s_containers[k].hasHref

\* C7 as stated: for every search response, search returns exactly one result
\* per distinct slug (the first occurrence), in source order, none dropped.
C7_AsStated == (s_pc = "done" /\ s_exc # "network") => IsDistinctFirst(s_ret)

\* C7 amended: for every search response in which every title anchor has an
\* href, search returns exactly one result per distinct slug (the first
\* occurrence), in source order, of size <= N; when some title anchor has no
\* href it returns the empty list.
C7_DistinctSlugs ==
    (s_pc = "done" /\ s_exc # "network") =>
        IF SomeBareAnchor THEN s_ret = <<>> ELSE IsDistinctFirst(s_ret)

\* three valid containers, two of them sharing a slug, have been searched
C7_Witness ==
    /\ s_pc = "done" /\ s_exc = "none"
    /\ Len(s_containers) = 3 /\ \A k \in 1..3 : ValidAt(k)
    /\ Len(s_ret) = 2

\* C8: search never raises to its caller: whatever its try block raises
\* (the request failing, a title anchor without href) it returns the empty
\* list, discarding the results collected before the exception.
C8_NeverRaises ==
    /\ s_pc # "raised"
    /\ (s_pc = "done" /\ s_exc # "none") => s_ret = <<>>
    /\ (s_pc = "done" /\ SomeBareAnchor) => s_exc = "TypeError"

\* a title anchor without href was met after a result had been collected
C8_Witness == s_pc = "done" /\ s_exc = "TypeError" /\ results # <<>> /\ s_ret = <<>>

(***************************************************************************)
(* Properties of _parse_chapters.                                          *)
(***************************************************************************)
\* href holds /manga/<slug>/<chapter>/ for the given slug
UnderManga(href, slug) ==
    \E p \in 1..Len(href) :
        /\ StartsAt(MangaUrl(slug), href, p)
        /\ LET q == p + Len(MangaUrl(slug))
               e == RunEnd(href, q)
           IN  e >= q /\ e + 1 <= Len(href) /\ href[e + 1] = "/"

\* C9: _parse_chapters returns a Chapter for an element only if its first
\* anchor has an href that contains the manga slug and matches
\* /manga/<manga-slug>/<chapter-slug>/ for the given manga slug, and the
\* records kept are in document order.
C9_OnlyOwnManga ==
    p_pc = "done" =>
        \E f \in [1..Len(p_ret) -> 1..Len(p_elems)] :
            /\ \A a, b \in 1..Len(p_ret) : a < b => f[a] < f[b]
            /\ \A a \in 1..Len(p_ret) :
                 LET el == p_elems[f[a]]
                 IN  /\ el.anchor /\ el.hasHref
                     /\ p_ret[a].url = el.href /\ p_ret[a].title = el.title
                     /\ Contains(p_slug, el.href)
                     /\ UnderManga(el.href, p_slug)

(***************************************************************************)
(* Properties of get_chapters.                                             *)
(***************************************************************************)
\* the elements of the HTML the chapters came from
UsedElems ==
    CASE gc_used = "static" -> gc_html.elems
      [] gc_used = "admin"  -> gc_admin.elems
      [] gc_used = "direct" -> gc_direct.elems
      [] OTHER              -> <<>>

Titles(chaps) == [k \in 1..Len(chaps) |-> chaps[k].title]

Issued(r) == \E k \in 1..Len(gc_calls) : gc_calls[k].req = r

\* C2: once the admin-AJAX POST has returned a response whose body is "0" or
\* has length <= 5, the direct-AJAX POST is attempted, and the chapters
\* returned are the ones parsed from the direct-AJAX response.
C2_DirectAfterTrivialAdmin ==
    (gc_admin # NoBody /\ (gc_admin.zero \/ gc_admin.len <= 5)) =>
        \/ gc_pc = "direct"
        \/ /\ Issued("direct")
           /\ gc_direct # NoBody =>
                /\ chapters = _parse_chapters(gc_direct.elems, manga_slug)
                /\ gc_pc = "done" => gc_ret = _parse_chapters(gc_direct.elems, manga_slug)

\* admin-AJAX answered "0" and the chapters returned came from direct-AJAX
C2_Witness ==
    /\ gc_pc = "done" /\ gc_admin.zero /\ Issued("direct")
    /\ gc_direct # NoBody /\ gc_ret # <<>>

StaticChapters == _parse_chapters(gc_html.elems, manga_slug)

\* postid-<N> or data-id="<N>" occurs in the page
IdMatches == gc_html.postid # -1 \/ gc_html.dataid # -1

\* C3: an AJAX request is issued only if the static parse yielded zero
\* chapters and a post identifier matched; otherwise no AJAX call is made and
\* the static-parse result is returned.
C3_AjaxOnlyWhenNeeded ==
    /\ (Issued("admin") \/ Issued("direct")) => (StaticChapters = <<>> /\ IdMatches)
    /\ Issued("direct") => Issued("admin")
    /\ (gc_pc = "done" /\ (StaticChapters # <<>> \/ ~IdMatches)) =>
          /\ ~Issued("admin") /\ ~Issued("direct")
          /\ gc_ret = StaticChapters

\* a page without chapters and without identifier: returned with no AJAX call
C3_Witness ==
    /\ gc_pc = "done" /\ gc_html.len = 100 /\ gc_html.elems # <<>>
    /\ StaticChapters = <<>> /\ ~IdMatches
    /\ Len(gc_calls) = 1 /\ gc_ret = <<>>

(***************************************************************************)
(* Properties of download_chapter.                                         *)
(***************************************************************************)
\* the file of the page at position k
Name(k) == Filename(k, pages[k])

\* C4: a run of download_chapter makes no request for a page whose file was
\* on disk when the run started and leaves that file as it was; only pages
\* whose file is missing are requested.
C4_ExistingFilesSkipped ==
    \A k \in 1..Len(pages) :
        /\ Name(k) \in DOMAIN d_before =>
              /\ Name(k) \in DOMAIN files /\ files[Name(k)] = d_before[Name(k)]
              /\ k <= Len(d_log) => d_log[k].outcome = "skip"
              /\ ~(d_pc = "stream" /\ d_i = k)
        /\ (k <= Len(d_log) /\ d_log[k].outcome = "skip") => Name(k) \in DOMAIN d_before

\* a second run skipped page 1, already on disk, and fetched page 2
C4_Witness ==
    /\ d_run = 2 /\ d_pc = "done" /\ Len(pages) = 2
    /\ Name(1) \in DOMAIN d_before /\ d_before[Name(1)] # <<>>
    /\ d_log[1].outcome = "skip" /\ d_log[2].outcome = "ok"

\* C5: a failure on one page never aborts the chapter: a page whose GET
\* raises or returns a status other than 200 is skipped with no file written,
\* every later page is still processed in order, and download_chapter returns.
C5_FailureSkipsOnePage ==
    /\ d_pc \in {"idle", "loop", "stream", "done"}
    /\ \A k \in 1..Len(d_log) : d_log[k].i = k
    /\ d_pc = "loop" => d_i = Len(d_log) + 1
    /\ d_pc = "done" => Len(d_log) = Len(pages)
    /\ d_pc \in {"loop", "stream"} => ENABLED download_chapter
    /\ \A k \in 1..Len(d_log) :
         d_log[k].outcome \in {"raise", "status"} => Name(k) \notin DOMAIN files

\* page 1's GET raised, page 2 was downloaded, and the run returned
C5_Witness ==
    /\ d_pc = "done" /\ Len(pages) = 2
    /\ d_log[1].outcome = "raise" /\ d_log[2].outcome = "ok"
    /\ Name(2) \in DOMAIN files

\* C10: after any runs of download_chapter over the same page list, every
\* file on disk holds the complete body of the 200 response for its URL: an
\* interrupted transfer never leaves a partial file that later runs skip.
C10_FilesComplete ==
    d_pc \in {"idle", "done"} =>
        \A k \in 1..Len(pages) :
            Name(k) \in DOMAIN files => files[Name(k)] = BodyOf(pages[k])

(***************************************************************************)
(* Properties of the driver.                                               *)
(***************************************************************************)
\* the entry is a number in 1..n
InRange(inp, n) == inp.numeric /\ inp.val \in 1..n

\* C6: a manga or chapter selection that is non-numeric or not in
\* 1..len(list) ends the program without fetching pages or downloading
\* anything.
C6_SelectionsValidated ==
    /\ (m_manga # NotTyped /\ ~InRange(m_manga, Len(m_results))) =>
          /\ m_pc \in {"exit", "crashed"}
          /\ m_chapters = <<>> /\ target = <<>> /\ downloaded = {}
    /\ (m_chap # NotTyped /\ ~InRange(m_chap, Len(m_chapters))) =>
          /\ m_pc \in {"exit", "crashed"}
          /\ target = <<>> /\ downloaded = {}


====
